---- MODULE Spec2Model ----
(***************************************************************************)
(* Model of clients/simple_client.py: the MCP session manager              *)
(* (with_mcp_session), the one-shot commands, the interactive dispatcher   *)
(* (interactive_shell._loop) and the process exit logic of main.           *)
(*                                                                         *)
(* Text is modelled as sequences of one-character strings, so that strip,  *)
(* partition and lower are computed as the code computes them.             *)
(***************************************************************************)
EXTENDS Integers, Sequences, FiniteSets, TLC

\* Bound on the number of input lines the operator enters in one run.
MaxCmds == 2

\* Bound on the number of content blocks of a tool call result.
MaxBlocks == 2

(***************************************************************************)
(* Text helpers                                                            *)
(***************************************************************************)
UpperChars == <<"C", "E", "I", "Q", "T", "U", "X">>
LowerChars == <<"c", "e", "i", "q", "t", "u", "x">>

\* str.lower() on one character
LowerChar(c) ==
    IF \E i \in 1..Len(UpperChars) : UpperChars[i] = c
    THEN LowerChars[CHOOSE i \in 1..Len(UpperChars) : UpperChars[i] = c]
    ELSE c

\* str.lower()
LowerId(s) == s

Lower(s) == [i \in 1..Len(s) |-> LowerChar(s[i])]

\* str.strip(): drop leading and trailing blanks
RECURSIVE LStrip(_)
LStrip(s) == IF s # <<>> /\ Head(s) = " " THEN LStrip(Tail(s)) ELSE s

RECURSIVE RStrip(_)
RStrip(s) ==
    IF s # <<>> /\ s[Len(s)] = " " THEN RStrip(SubSeq(s, 1, Len(s) - 1)) ELSE s

Strip(s) == RStrip(LStrip(s))

\* index of the first blank of s, 0 when there is none
FirstSpace(s) ==
    IF \E i \in 1..Len(s) : s[i] = " "
    THEN CHOOSE i \in 1..Len(s) : s[i] = " " /\ \A j \in 1..(i - 1) : s[j] # " "
    ELSE 0

\* str.partition(" "): the text before the first blank and the text after it
PartHead(s) == IF FirstSpace(s) = 0 THEN s ELSE SubSeq(s, 1, FirstSpace(s) - 1)
PartTailWhole(s) == IF FirstSpace(s) = 0 THEN s ELSE SubSeq(s, FirstSpace(s) + 1, Len(s))

PartTail(s) == IF FirstSpace(s) = 0 THEN <<>> ELSE SubSeq(s, FirstSpace(s) + 1, Len(s))

\* json.loads succeeds: over the alphabet of the model the only JSON text is {}
JsonDecodes(raw) == raw = <<"{", "}">>

\* parse_json_arguments: "empty" for no text (the explicit empty mapping),
\* "parsed" for JSON text, "SystemExit" when json.loads raises JSONDecodeError
ParseBadJsonAsEmpty(raw) ==
    IF raw = <<>> THEN "empty" ELSE IF JsonDecodes(raw) THEN "parsed" ELSE "empty"

parse_json_arguments(raw) ==
    IF raw = <<>> THEN "empty" ELSE IF JsonDecodes(raw) THEN "parsed" ELSE "SystemExit"

(***************************************************************************)
(* Inputs                                                                  *)
(***************************************************************************)
\* args.command
Modes == {"interactive", "list-tools", "call-tool", "chat"}

\* the optional inline argument of the one-shot call-tool command
ArgTexts == {<<>>, <<"{", "}">>, <<"{">>}

\* lines the operator can type at the prompt
Lines == {
    <<>>,
    <<" ">>,
    <<"q", "u", "i", "t">>,
    <<"Q", "u", "I", "t">>,
    <<"e", "x", "i", "t">>,
    <<"E", "X", "I", "T", " ">>,
    <<"h", "e", "l", "p">>,
    <<"t", "o", "o", "l", "s">>,
    <<" ", "t", "o", "o", "l", "s", " ">>,
    <<"c", "a", "l", "l">>,
    <<"c", "a", "l", "l", " ", "t">>,
    <<"C", "a", "l", "l", " ", "t", " ", "{", "}">>,
    <<"c", "a", "l", "l", " ", "t", " ", "{">>,
    <<"c", "h", "a", "t">>,
    <<"c", "h", "a", "t", " ", "h", "i">>,
    <<"p", "l", "a", "n">>,
    <<"p", "l", "a", "n", " ", "g">>,
    <<"s", "t", "a", "t", "u", "s">>,
    <<"f", "o", "o">>,
    <<"E", "x">>,
    <<"q", "u", "i", "t", "s">> }

\* the verbs of the dispatch table
V_quit == <<"q", "u", "i", "t">>
V_exit == <<"e", "x", "i", "t">>
V_help == <<"h", "e", "l", "p">>
V_tools == <<"t", "o", "o", "l", "s">>
V_call == <<"c", "a", "l", "l">>
V_chat == <<"c", "h", "a", "t">>
V_plan == <<"p", "l", "a", "n">>
V_status == <<"s", "t", "a", "t", "u", "s">>

\* how a session operation (initialize, list_tools, call_tool) can end:
\* a result, a failure raised as an Exception (a timeout, a dropped
\* connection, an error answer), or an operator interrupt during the wait
SessionResults == {"ok", "timeout", "drop", "error", "interrupt"}
SessionFailures == {"timeout", "drop", "error"}

\* how an HTTP operation (chat POST, health GET) can end: a result, an
\* httpx.HTTPError (connection error, timeout, bad status), a body that is
\* not JSON or not of the expected shape (ValueError / AttributeError), or an
\* operator interrupt during the wait
HttpResults == {"ok", "httperror", "timeout", "badbody", "interrupt"}
HttpErrors == {"httperror", "timeout"}

\* how an operator interrupt reaches the loop while it waits for input: as a
\* KeyboardInterrupt raised by the awaited input (line 170 catches it), or as
\* a cancellation of the task by asyncio.run (only main, line 318, sees it)
InterruptDeliveries == {"input", "task"}

NoText == <<>>

\* the network operations of the commands
Ops == {"listTools", "callTool", "chat", "health"}

\* tool descriptors the server can advertise: a name and an optional
\* description (described is FALSE when the description is None)
T1 == [name |-> <<"t">>, description |-> <<"d">>, described |-> TRUE]
T2 == [name |-> <<"u">>, description |-> <<>>, described |-> FALSE]

\* the listings the server can answer to list_tools
ToolLists == {<<>>, <<T1>>, <<T2, T1>>}

\* sequences over S of length at most n
RECURSIVE SeqsUpTo(_, _)
SeqsUpTo(S, n) ==
    IF n = 0 THEN {<<>>}
    ELSE SeqsUpTo(S, n - 1) \cup
         {Append(q, x) : q \in {r \in SeqsUpTo(S, n - 1) : Len(r) = n - 1}, x \in S}

\* CallToolResult values: isError, structuredContent and meta (absent, an
\* empty mapping, or a mapping with entries) and the content blocks
Payloads == {"None", "{}", "P"}
Blocks == {"B1", "B2"}
ToolResults ==
    [isError : BOOLEAN, structuredContent : Payloads, meta : Payloads,
     content : SeqsUpTo(Blocks, MaxBlocks)]
NoResult == [isError |-> FALSE, structuredContent |-> "None", meta |-> "None",
             content |-> <<>>]

(***************************************************************************)
(* Prompts                                                                 *)
(***************************************************************************)
SystemPrompt ==
    <<"You are helping an operator decide which Metasploit MCP tools to call.">>

FallbackLine ==
    <<"-", " ", "n", "o", "n", "e", " ", "a", "d", "v", "e", "r", "t", "i", "s", "e", "d">>

\* the message of the one-shot chat command
OneShotMessage == <<"h", "i">>

\* f"- {t.name}: {t.description or ''}"
PlanLine(t) ==
    <<"-", " ">> \o t.name \o <<":", " ">>
        \o (IF t.described THEN t.description ELSE <<>>)

\* os.linesep.join(summary_lines) or '- none advertised', kept as lines: the
\* joined text is empty exactly when there is no line
PlanToolSectionNoFallback(ts) == [i \in 1..Len(ts) |-> PlanLine(ts[i])]

PlanToolSection(ts) ==
    IF ts = <<>> THEN <<FallbackLine>> ELSE [i \in 1..Len(ts) |-> PlanLine(ts[i])]

\* what plan posts: the system instruction, the tool section and the goal
PlanPrompt(ts, goal) ==
    [system |-> SystemPrompt, tools |-> PlanToolSection(ts), text |-> goal]

\* what chat posts: the text alone, no system instruction
ChatPrompt(text) == [system |-> NoText, tools |-> <<>>, text |-> text]

(***************************************************************************)
(* State                                                                   *)
(***************************************************************************)
VARIABLES
    mode,         \* args.command
    argtext,      \* args.arguments of the one-shot call-tool command
    pc,           \* where the single task of the process is suspended
    verb,         \* the lower-cased verb of the command being dispatched
    tail,         \* its tail
    transport,    \* "none", "open" or "closed": the SSE transport
    opens,        \* how many times a transport was opened
    closes,       \* how many times a transport was torn down
    initialized,  \* session.initialize() has returned
    alive,        \* the connection behind the session has not dropped
    handler,      \* "none", "running", "returned", "raised"
    exc,          \* the exception that is propagating, "none" when none is
    exitCode,     \* -1 while the process runs, then its exit code
    out,          \* what was printed, in order: records [tag, arg]
    nread,        \* how many lines were read from the operator
    sigint,       \* "none", or how the operator's interrupt was delivered
    entry,        \* the line just read from the operator
    args,         \* the parsed tool arguments: "none", "empty" or "parsed"
    inflight,     \* how many network operations are outstanding
    issued,       \* per operation, how often the current command issued it
    serverTools,  \* what the tool server advertises now
    listing,      \* the answer of the last list_tools
    sent,         \* the prompts posted to the chat service, in order
    result,       \* the CallToolResult handed to format_tool_result
    rendered,     \* the lines format_tool_result returned
    ev            \* the step just taken: [op, res]

vars == <<mode, argtext, pc, verb, tail, transport, opens, closes, initialized,
          alive, handler, exc, exitCode, out, nread, sigint, entry, args,
          inflight, issued, serverTools, listing, sent, result, rendered, ev>>

\* what no step of the client changes: the server's tools, and the formatter's
\* input and output outside the formatter
outside == <<serverTools, result, rendered>>

NoneIssued == [op \in Ops |-> 0]

Say(tag, arg) == Append(out, [tag |-> tag, arg |-> arg])

Printed(tag) == \E i \in 1..Len(out) : out[i].tag = tag

\* what a session operation can answer, given the state of the connection
SessionOutcomes == IF alive THEN SessionResults ELSE {"drop", "interrupt"}

Init ==
    /\ mode \in Modes
    /\ argtext \in (IF mode = "call-tool" THEN ArgTexts ELSE {NoText})
    /\ pc = "main"
    /\ verb = NoText
    /\ tail = NoText
    /\ transport = "none"
    /\ opens = 0
    /\ closes = 0
    /\ initialized = FALSE
    /\ alive = TRUE
    /\ handler = "none"
    /\ exc = "none"
    /\ exitCode = -1
    /\ out = <<>>
    /\ nread = 0
    /\ sigint = "none"
    /\ entry = NoText
    /\ args = "none"
    /\ inflight = 0
    /\ issued = NoneIssued
    /\ serverTools \in ToolLists
    /\ listing = <<>>
    /\ sent = <<>>
    /\ result = NoResult
    /\ rendered = <<>>
    /\ ev = [op |-> "none", res |-> "none"]

(***************************************************************************)
(* with_mcp_session: the two nested async-with blocks                      *)
(***************************************************************************)
\* the suspension points of the commands and the operation awaited there
NetPcs == {"listing", "calling", "chatting", "health"}

OpOf(p) ==
    CASE p = "listing" -> "listTools"
      [] p = "calling" -> "callTool"
      [] p = "chatting" -> "chat"
      [] OTHER -> "health"

\* the operations still outstanding once the awaited one has answered
Settled == IF pc \in NetPcs THEN inflight - 1 ELSE inflight

\* the operations the current command has issued: a command starts when a
\* line is read
Counted == IF pc = "waiting" THEN NoneIssued ELSE issued

\* the task goes on without issuing an operation
Settle ==
    /\ inflight' = Settled
    /\ issued' = Counted

\* the task issues operation op and awaits it
Issue(op) ==
    /\ inflight' = Settled + 1
    /\ issued' = [Counted EXCEPT ![op] = @ + 1]

\* an exception e leaves the current await: it unwinds through the
\* async-with blocks (closing the transport when one is open) up to main
RaiseReconnect(e) ==
    /\ Settle
    /\ IF e = "Error" /\ handler = "running"
       THEN /\ exc' = "none"
            /\ handler' = handler
            /\ pc' = "connect"
       ELSE /\ exc' = e
            /\ handler' = IF handler = "running" THEN "raised" ELSE handler
            /\ pc' = IF transport = "open" THEN "teardown" ELSE "mainexit"

RaiseLeak(e) ==
    /\ exc' = e
    /\ handler' = IF handler = "running" THEN "raised" ELSE handler
    /\ pc' = "mainexit"
    /\ Settle

Raise(e) ==
    /\ exc' = e
    /\ handler' = IF handler = "running" THEN "raised" ELSE handler
    /\ pc' = IF transport = "open" THEN "teardown" ELSE "mainexit"
    /\ Settle

\* the handler returns: the async-with blocks are left normally
Return ==
    /\ exc' = "none"
    /\ handler' = "returned"
    /\ pc' = "teardown"
    /\ Settle

\* main: build the config and start the command (lines 300-317)
Main ==
    /\ pc = "main"
    /\ IF mode = "call-tool" /\ parse_json_arguments(argtext) = "SystemExit"
       THEN /\ Raise("SystemExit:parse")
            /\ ev' = [op |-> "parse", res |-> "SystemExit"]
            /\ UNCHANGED <<args, sent>>
       ELSE /\ pc' = IF mode = "chat" THEN "chatting" ELSE "connect"
            /\ ev' = [op |-> "start", res |-> "ok"]
            /\ args' = IF mode = "call-tool" THEN parse_json_arguments(argtext)
                                             ELSE args
            /\ IF mode = "chat"
               THEN /\ Issue("chat")
                    /\ sent' = Append(sent, ChatPrompt(OneShotMessage))
               ELSE /\ Settle
                    /\ UNCHANGED sent
            /\ UNCHANGED <<exc, handler>>
    /\ UNCHANGED sigint
    /\ UNCHANGED outside
    /\ UNCHANGED <<entry, listing>>
    /\ UNCHANGED <<mode, argtext, verb, tail, transport, opens, closes,
                   initialized, alive, exitCode, out, nread>>

\* sse_client(...).__aenter__ (lines 101-105)
OpenTransport ==
    /\ pc = "connect"
    /\ \E r \in {"ok", "error", "timeout", "interrupt"} :
          /\ ev' = [op |-> "connect", res |-> r]
          /\ sigint' = IF r = "interrupt" THEN "task" ELSE sigint
          /\ IF r = "ok"
             THEN /\ transport' = "open"
                  /\ opens' = opens + 1
                  /\ pc' = "handshake"
                  /\ Settle
                  /\ UNCHANGED <<exc, handler>>
             ELSE /\ Raise(IF r = "interrupt" THEN "KeyboardInterrupt" ELSE "Error")
                  /\ UNCHANGED <<transport, opens>>
    /\ UNCHANGED outside
    /\ UNCHANGED <<entry, args, listing, sent>>
    /\ UNCHANGED <<mode, argtext, verb, tail, closes, initialized, alive,
                   exitCode, out, nread>>

\* where the handler of each command first suspends
HandlerEntry ==
    CASE mode = "interactive" -> "waiting"
      [] mode = "list-tools" -> "listing"
      [] OTHER -> "calling"

\* await session.initialize(); return await handler(session) (lines 106-108)
HandshakeNoInit ==
    /\ pc = "handshake"
    /\ \E r \in SessionResults :
          /\ ev' = [op |-> "initialize", res |-> r]
          /\ sigint' = IF r = "interrupt" THEN "task" ELSE sigint
          /\ alive' = (r # "drop")
          /\ IF r # "interrupt"
             THEN /\ initialized' = (r = "ok")
                  /\ handler' = "running"
                  /\ pc' = HandlerEntry
                  /\ out' = IF mode = "interactive" THEN Say("Connected", NoText) ELSE out
                  /\ IF mode = "interactive" THEN Settle ELSE Issue(OpOf(HandlerEntry))
                  /\ UNCHANGED exc
             ELSE /\ Raise("KeyboardInterrupt")
                  /\ UNCHANGED <<initialized, out>>
    /\ UNCHANGED outside
    /\ UNCHANGED <<entry, args, listing, sent>>
    /\ UNCHANGED <<mode, argtext, verb, tail, transport, opens, closes,
                   exitCode, nread>>

Handshake ==
    /\ pc = "handshake"
    /\ \E r \in SessionResults :
          /\ ev' = [op |-> "initialize", res |-> r]
          /\ sigint' = IF r = "interrupt" THEN "task" ELSE sigint
          /\ alive' = (r # "drop")
          /\ IF r = "ok"
             THEN /\ initialized' = TRUE
                  /\ handler' = "running"
                  /\ pc' = HandlerEntry
                  /\ out' = IF mode = "interactive" THEN Say("Connected", NoText) ELSE out
                  /\ IF mode = "interactive" THEN Settle ELSE Issue(OpOf(HandlerEntry))
                  /\ UNCHANGED exc
             ELSE /\ Raise(IF r = "interrupt" THEN "KeyboardInterrupt" ELSE "Error")
                  /\ UNCHANGED <<initialized, out>>
    /\ UNCHANGED outside
    /\ UNCHANGED <<entry, args, listing, sent>>
    /\ UNCHANGED <<mode, argtext, verb, tail, transport, opens, closes,
                   exitCode, nread>>

\* leaving async with ClientSession / async with sse_client (lines 101-108)
TeardownResume ==
    /\ pc = "teardown"
    /\ transport' = "closed"
    /\ closes' = closes + 1
    /\ pc' = IF handler = "raised" /\ exc = "Error" THEN "waiting" ELSE "mainexit"
    /\ ev' = [op |-> "teardown", res |-> "ok"]
    /\ UNCHANGED <<inflight, issued>>
    /\ UNCHANGED sigint
    /\ UNCHANGED outside
    /\ UNCHANGED <<entry, args, listing, sent>>
    /\ UNCHANGED <<mode, argtext, verb, tail, opens, initialized, alive,
                   handler, exc, exitCode, out, nread>>

Teardown ==
    /\ pc = "teardown"
    /\ transport' = "closed"
    /\ closes' = closes + 1
    /\ pc' = "mainexit"
    /\ ev' = [op |-> "teardown", res |-> "ok"]
    /\ UNCHANGED <<inflight, issued>>
    /\ UNCHANGED sigint
    /\ UNCHANGED outside
    /\ UNCHANGED <<entry, args, listing, sent>>
    /\ UNCHANGED <<mode, argtext, verb, tail, opens, initialized, alive,
                   handler, exc, exitCode, out, nread>>

\* asyncio.run returns or raises into main; the process exits (lines 305-320)
MainExitInterruptZero ==
    /\ pc = "mainexit"
    /\ pc' = "done"
    /\ exitCode' = IF exc \in {"none", "KeyboardInterrupt"} THEN 0 ELSE 1
    /\ out' = CASE exc = "KeyboardInterrupt" -> Say("Interrupted", NoText)
                [] exc = "SystemExit:parse" -> Say("stderr:UnableToParseJSON", NoText)
                [] exc = "SystemExit:ollama" -> Say("stderr:FailedToReachOllama", NoText)
                [] exc = "Error" -> Say("stderr:Traceback", NoText)
                [] OTHER -> out
    /\ ev' = [op |-> "exit", res |-> exc]
    /\ UNCHANGED <<inflight, issued>>
    /\ UNCHANGED sigint
    /\ UNCHANGED outside
    /\ UNCHANGED <<entry, args, listing, sent>>
    /\ UNCHANGED <<mode, argtext, verb, tail, transport, opens, closes,
                   initialized, alive, handler, exc, nread>>

MainExit ==
    /\ pc = "mainexit"
    /\ pc' = "done"
    /\ exitCode' = IF exc = "none" THEN 0 ELSE 1
    /\ out' = CASE exc = "KeyboardInterrupt" -> Say("Interrupted", NoText)
                [] exc = "SystemExit:parse" -> Say("stderr:UnableToParseJSON", NoText)
                [] exc = "SystemExit:ollama" -> Say("stderr:FailedToReachOllama", NoText)
                [] exc = "Error" -> Say("stderr:Traceback", NoText)
                [] OTHER -> out
    /\ ev' = [op |-> "exit", res |-> exc]
    /\ UNCHANGED <<inflight, issued>>
    /\ UNCHANGED sigint
    /\ UNCHANGED outside
    /\ UNCHANGED <<entry, args, listing, sent>>
    /\ UNCHANGED <<mode, argtext, verb, tail, transport, opens, closes,
                   initialized, alive, handler, exc, nread>>

(***************************************************************************)
(* interactive_shell._loop                                                 *)
(***************************************************************************)
\* the command prints one line and the loop goes on to the next input
Stay(tag, arg) ==
    /\ pc' = "waiting"
    /\ out' = Say(tag, arg)
    /\ Settle
    /\ UNCHANGED <<exc, handler>>

\* the command suspends on a network operation
SuspendDetached(p) ==
    /\ pc' = "waiting"
    /\ Issue(OpOf(p))
    /\ UNCHANGED <<out, exc, handler>>

Suspend(p) ==
    /\ pc' = p
    /\ Issue(OpOf(p))
    /\ UNCHANGED <<out, exc, handler>>

\* input raises EOFError: print a newline and break (lines 168-172)
ReadEOF ==
    /\ pc = "waiting"
    /\ out' = Say("newline", NoText)
    /\ Return
    /\ ev' = [op |-> "input", res |-> "eof"]
    /\ UNCHANGED sigint
    /\ UNCHANGED outside
    /\ UNCHANGED <<entry, args, listing, sent>>
    /\ UNCHANGED <<mode, argtext, verb, tail, transport, opens, closes,
                   initialized, alive, exitCode, nread>>

\* the operator interrupts the wait for input (lines 168-172, 305-320)
ReadInterrupt ==
    /\ pc = "waiting"
    /\ \E d \in InterruptDeliveries :
          /\ ev' = [op |-> "input", res |-> IF d = "input" THEN "interrupt-input"
                                                          ELSE "interrupt-task"]
          /\ sigint' = d
          /\ IF d = "input"
             THEN /\ out' = Say("newline", NoText)
                  /\ Return
             ELSE /\ Raise("KeyboardInterrupt")
                  /\ UNCHANGED out
    /\ UNCHANGED outside
    /\ UNCHANGED <<entry, args, listing, sent>>
    /\ UNCHANGED <<mode, argtext, verb, tail, transport, opens, closes,
                   initialized, alive, exitCode, nread>>

\* one line is read, split and dispatched up to its first network operation
\* (lines 174-252)
ReadLine ==
    /\ pc = "waiting"
    /\ nread < MaxCmds
    /\ \E entry_ \in Lines :
        LET command == Strip(entry_)
            v == Lower(PartHead(command))
            t == PartTail(command)
            raw_args == PartTail(t)
        IN  /\ nread' = nread + 1
            /\ entry' = entry_
            /\ IF command = NoText
               THEN /\ pc' = "waiting"
                    /\ ev' = [op |-> "input", res |-> "empty"]
                    /\ Settle
                    /\ UNCHANGED <<verb, tail, out, exc, handler, args, sent>>
               ELSE /\ verb' = v
                    /\ tail' = t
                    /\ args' = IF v = V_call /\ t # NoText
                                   /\ parse_json_arguments(Strip(raw_args)) # "SystemExit"
                               THEN parse_json_arguments(Strip(raw_args))
                               ELSE args
                    /\ sent' = IF v = V_chat /\ t # NoText
                               THEN Append(sent, ChatPrompt(t))
                               ELSE sent
                    /\ CASE v \in {V_quit, V_exit} ->
                              /\ Return
                              /\ ev' = [op |-> "input", res |-> "quit"]
                              /\ UNCHANGED out
                         [] v = V_help ->
                              /\ Stay("help", NoText)
                              /\ ev' = [op |-> "input", res |-> "help"]
                         [] v = V_tools ->
                              /\ Suspend("listing")
                              /\ ev' = [op |-> "input", res |-> "dispatch"]
                         [] v = V_call ->
                              IF t = NoText
                              THEN /\ Stay("Usage:call", NoText)
                                   /\ ev' = [op |-> "input", res |-> "usage"]
                              ELSE IF parse_json_arguments(Strip(raw_args)) = "SystemExit"
                              THEN /\ Raise("SystemExit:parse")
                                   /\ ev' = [op |-> "parse", res |-> "SystemExit"]
                                   /\ UNCHANGED out
                              ELSE /\ Suspend("calling")
                                   /\ ev' = [op |-> "input", res |-> "dispatch"]
                         [] v = V_chat ->
                              IF t = NoText
                              THEN /\ Stay("Usage:chat", NoText)
                                   /\ ev' = [op |-> "input", res |-> "usage"]
                              ELSE /\ Suspend("chatting")
                                   /\ ev' = [op |-> "input", res |-> "dispatch"]
                         [] v = V_plan ->
                              IF t = NoText
                              THEN /\ Stay("Usage:plan", NoText)
                                   /\ ev' = [op |-> "input", res |-> "usage"]
                              ELSE /\ Suspend("listing")
                                   /\ ev' = [op |-> "input", res |-> "dispatch"]
                         [] v = V_status ->
                              /\ Suspend("health")
                              /\ ev' = [op |-> "input", res |-> "dispatch"]
                         [] OTHER ->
                              /\ Stay("Unknown", v)
                              /\ ev' = [op |-> "input", res |-> "unknown"]
    /\ UNCHANGED sigint
    /\ UNCHANGED outside
    /\ UNCHANGED <<listing>>
    /\ UNCHANGED <<mode, argtext, transport, opens, closes, initialized,
                   alive, exitCode>>

\* what await session.list_tools() answers: the tools advertised now
StaleTools == IF listing # <<>> THEN listing ELSE serverTools

FetchedTools == serverTools

\* await session.list_tools() of tools (lines 198-203) and of plan (230-237)
ListToolsGuarded ==
    /\ pc = "listing"
    /\ mode = "interactive"
    /\ \E r \in SessionOutcomes :
          /\ ev' = [op |-> "listTools", res |-> r]
          /\ sigint' = IF r = "interrupt" THEN "task" ELSE sigint
          /\ alive' = (alive /\ r # "drop")
          /\ listing' = IF r = "ok" THEN FetchedTools ELSE listing
          /\ sent' = IF r = "ok" /\ verb # V_tools
                     THEN Append(sent, PlanPrompt(FetchedTools, tail))
                     ELSE sent
          /\ CASE r = "ok" /\ verb = V_tools -> Stay("tools", NoText)
               [] r = "ok" /\ verb # V_tools -> Suspend("chatting")
               [] r = "interrupt" -> Raise("KeyboardInterrupt") /\ UNCHANGED out
               [] OTHER -> Stay("ListToolsFailed", NoText)
    /\ UNCHANGED outside
    /\ UNCHANGED <<entry, args>>
    /\ UNCHANGED <<mode, argtext, verb, tail, transport, opens, closes,
                   initialized, exitCode, nread>>

ListToolsDone ==
    /\ pc = "listing"
    /\ mode = "interactive"
    /\ \E r \in SessionOutcomes :
          /\ ev' = [op |-> "listTools", res |-> r]
          /\ sigint' = IF r = "interrupt" THEN "task" ELSE sigint
          /\ alive' = (alive /\ r # "drop")
          /\ listing' = IF r = "ok" THEN FetchedTools ELSE listing
          /\ sent' = IF r = "ok" /\ verb # V_tools
                     THEN Append(sent, PlanPrompt(FetchedTools, tail))
                     ELSE sent
          /\ CASE r = "ok" /\ verb = V_tools -> Stay("tools", NoText)
               [] r = "ok" /\ verb # V_tools -> Suspend("chatting")
               [] r = "interrupt" -> Raise("KeyboardInterrupt") /\ UNCHANGED out
               [] OTHER -> Raise("Error") /\ UNCHANGED out
    /\ UNCHANGED outside
    /\ UNCHANGED <<entry, args>>
    /\ UNCHANGED <<mode, argtext, verb, tail, transport, opens, closes,
                   initialized, exitCode, nread>>

\* await session.call_tool(name, args) under except Exception (lines 210-215)
CallToolUnguarded ==
    /\ pc = "calling"
    /\ mode = "interactive"
    /\ \E r \in SessionOutcomes :
          /\ ev' = [op |-> "callTool", res |-> r]
          /\ sigint' = IF r = "interrupt" THEN "task" ELSE sigint
          /\ alive' = (alive /\ r # "drop")
          /\ CASE r = "ok" -> Stay("result", NoText)
               [] r = "interrupt" -> Raise("KeyboardInterrupt") /\ UNCHANGED out
               [] OTHER -> Raise("Error") /\ UNCHANGED out
    /\ UNCHANGED outside
    /\ UNCHANGED <<entry, args, listing, sent>>
    /\ UNCHANGED <<mode, argtext, verb, tail, transport, opens, closes,
                   initialized, exitCode, nread>>

CallToolDone ==
    /\ pc = "calling"
    /\ mode = "interactive"
    /\ \E r \in SessionOutcomes :
          /\ ev' = [op |-> "callTool", res |-> r]
          /\ sigint' = IF r = "interrupt" THEN "task" ELSE sigint
          /\ alive' = (alive /\ r # "drop")
          /\ CASE r = "ok" -> Stay("result", NoText)
               [] r = "interrupt" -> Raise("KeyboardInterrupt") /\ UNCHANGED out
               [] OTHER -> Stay("ToolCallFailed", NoText)
    /\ UNCHANGED outside
    /\ UNCHANGED <<entry, args, listing, sent>>
    /\ UNCHANGED <<mode, argtext, verb, tail, transport, opens, closes,
                   initialized, exitCode, nread>>

\* await client.chat(...) under except httpx.HTTPError, of chat (lines
\* 220-225) and of plan (238-243); OllamaClient.chat is lines 44-61
ChatDoneRetry ==
    /\ pc = "chatting"
    /\ mode = "interactive"
    /\ \E r \in HttpResults :
          /\ ev' = [op |-> "chat", res |-> r]
          /\ sigint' = IF r = "interrupt" THEN "task" ELSE sigint
          /\ CASE r = "ok" -> Stay("reply", NoText)
               [] r \in HttpErrors -> Suspend("chatting")
               [] r = "interrupt" -> Raise("KeyboardInterrupt") /\ UNCHANGED out
               [] OTHER -> Raise("Error") /\ UNCHANGED out
    /\ UNCHANGED outside
    /\ UNCHANGED <<entry, args, listing, sent>>
    /\ UNCHANGED <<mode, argtext, verb, tail, transport, opens, closes,
                   initialized, alive, exitCode, nread>>

ChatDone ==
    /\ pc = "chatting"
    /\ mode = "interactive"
    /\ \E r \in HttpResults :
          /\ ev' = [op |-> "chat", res |-> r]
          /\ sigint' = IF r = "interrupt" THEN "task" ELSE sigint
          /\ CASE r = "ok" -> Stay("reply", NoText)
               [] r \in HttpErrors -> Stay("OllamaFailed", NoText)
               [] r = "interrupt" -> Raise("KeyboardInterrupt") /\ UNCHANGED out
               [] OTHER -> Raise("Error") /\ UNCHANGED out
    /\ UNCHANGED outside
    /\ UNCHANGED <<entry, args, listing, sent>>
    /\ UNCHANGED <<mode, argtext, verb, tail, transport, opens, closes,
                   initialized, alive, exitCode, nread>>

\* await fetch_health(config) under except httpx.HTTPError (lines 244-250,
\* 155-159)
HealthDone ==
    /\ pc = "health"
    /\ \E r \in HttpResults :
          /\ ev' = [op |-> "health", res |-> r]
          /\ sigint' = IF r = "interrupt" THEN "task" ELSE sigint
          /\ CASE r = "ok" -> Stay("health", NoText)
               [] r \in HttpErrors -> Stay("HealthFailed", NoText)
               [] r = "interrupt" -> Raise("KeyboardInterrupt") /\ UNCHANGED out
               [] OTHER -> Raise("Error") /\ UNCHANGED out
    /\ UNCHANGED outside
    /\ UNCHANGED <<entry, args, listing, sent>>
    /\ UNCHANGED <<mode, argtext, verb, tail, transport, opens, closes,
                   initialized, alive, exitCode, nread>>

(***************************************************************************)
(* The one-shot commands                                                   *)
(***************************************************************************)
\* list_tools_once._list (lines 127-135)
ListOnceDone ==
    /\ pc = "listing"
    /\ mode = "list-tools"
    /\ \E r \in SessionOutcomes :
          /\ ev' = [op |-> "listTools", res |-> r]
          /\ sigint' = IF r = "interrupt" THEN "task" ELSE sigint
          /\ alive' = (alive /\ r # "drop")
          /\ listing' = IF r = "ok" THEN FetchedTools ELSE listing
          /\ CASE r = "ok" -> out' = Say("tools", NoText) /\ Return
               [] r = "interrupt" -> Raise("KeyboardInterrupt") /\ UNCHANGED out
               [] OTHER -> Raise("Error") /\ UNCHANGED out
    /\ UNCHANGED outside
    /\ UNCHANGED <<entry, args, sent>>
    /\ UNCHANGED <<mode, argtext, verb, tail, transport, opens, closes,
                   initialized, exitCode, nread>>

\* call_tool_once._call (lines 138-143)
CallOnceDone ==
    /\ pc = "calling"
    /\ mode = "call-tool"
    /\ \E r \in SessionOutcomes :
          /\ ev' = [op |-> "callTool", res |-> r]
          /\ sigint' = IF r = "interrupt" THEN "task" ELSE sigint
          /\ alive' = (alive /\ r # "drop")
          /\ CASE r = "ok" -> out' = Say("result", NoText) /\ Return
               [] r = "interrupt" -> Raise("KeyboardInterrupt") /\ UNCHANGED out
               [] OTHER -> Raise("Error") /\ UNCHANGED out
    /\ UNCHANGED outside
    /\ UNCHANGED <<entry, args, listing, sent>>
    /\ UNCHANGED <<mode, argtext, verb, tail, transport, opens, closes,
                   initialized, exitCode, nread>>

\* chat_once (lines 146-152): no session is involved
ChatOnceDone ==
    /\ pc = "chatting"
    /\ mode = "chat"
    /\ \E r \in HttpResults :
          /\ ev' = [op |-> "chat", res |-> r]
          /\ sigint' = IF r = "interrupt" THEN "task" ELSE sigint
          /\ CASE r = "ok" ->
                    /\ out' = Say("reply", NoText)
                    /\ pc' = "mainexit"
                    /\ Settle
                    /\ UNCHANGED <<exc, handler>>
               [] r \in HttpErrors -> Raise("SystemExit:ollama") /\ UNCHANGED out
               [] r = "interrupt" -> Raise("KeyboardInterrupt") /\ UNCHANGED out
               [] OTHER -> Raise("Error") /\ UNCHANGED out
    /\ UNCHANGED outside
    /\ UNCHANGED <<entry, args, listing, sent>>
    /\ UNCHANGED <<mode, argtext, verb, tail, transport, opens, closes,
                   initialized, alive, exitCode, nread>>

(***************************************************************************)
(* The tool server                                                         *)
(***************************************************************************)
\* the server advertises other tools, while a session is connected to it
ServerChangesTools ==
    /\ transport = "open"
    /\ pc \in NetPcs \cup {"waiting"}
    /\ \E ts \in ToolLists \ {serverTools} : serverTools' = ts
    /\ ev' = [op |-> "server", res |-> "changed"]
    /\ UNCHANGED <<mode, argtext, pc, verb, tail, transport, opens, closes,
                   initialized, alive, handler, exc, exitCode, out, nread,
                   sigint, entry, args, inflight, issued, listing, sent,
                   result, rendered>>

Next ==
    \/ Main
    \/ OpenTransport
    \/ Handshake
    \/ Teardown
    \/ MainExit
    \/ ReadEOF
    \/ ReadInterrupt
    \/ ReadLine
    \/ ListToolsDone
    \/ CallToolDone
    \/ ChatDone
    \/ HealthDone
    \/ ListOnceDone
    \/ CallOnceDone
    \/ ChatOnceDone
    \/ ServerChangesTools

Spec == Init /\ [][Next]_vars

TypeOK ==
    /\ mode \in Modes
    /\ pc \in {"main", "connect", "handshake", "waiting", "listing", "calling",
               "chatting", "health", "teardown", "mainexit", "done",
               "format", "formatted"}
    /\ inflight \in 0..(MaxCmds + 1)
    /\ \A op \in Ops : issued[op] \in 0..2
    /\ args \in {"none", "empty", "parsed"}
    /\ serverTools \in ToolLists
    /\ listing \in ToolLists
    /\ result \in ToolResults
    /\ transport \in {"none", "open", "closed"}
    /\ handler \in {"none", "running", "returned", "raised"}
    /\ exc \in {"none", "KeyboardInterrupt", "SystemExit:parse",
                "SystemExit:ollama", "Error"}
    /\ exitCode \in {-1, 0, 1}
    /\ nread \in 0..MaxCmds
    /\ sigint \in {"none"} \cup InterruptDeliveries

(***************************************************************************)
(* format_tool_result                                                      *)
(***************************************************************************)
\* one line (or indented block of lines) of the formatted text
StatusLine(r) == [kind |-> "status", val |-> IF r.isError THEN "error" ELSE "ok"]
Header(name) == [kind |-> "header", val |-> name]
\* textwrap.indent(json.dumps(x, indent=2), "  ")
Dump(x) == [kind |-> "json", val |-> x]

\* the truth value of an optional mapping: None and {} are false
Truthy(payload) == payload \notin {"None", "{}"}

\* format_tool_result (lines 111-124), as the list of lines it joins
FormatMetaFirst(r) ==
    <<StatusLine(r)>>
    \o (IF Truthy(r.meta) THEN <<Header("meta:"), Dump(r.meta)>> ELSE <<>>)
    \o (IF Truthy(r.structuredContent)
        THEN <<Header("structured:"), Dump(r.structuredContent)>> ELSE <<>>)
    \o [i \in 1..Len(r.content) |-> Dump(r.content[i])]

format_tool_result(r) ==
    <<StatusLine(r)>>
    \o (IF Truthy(r.structuredContent)
        THEN <<Header("structured:"), Dump(r.structuredContent)>> ELSE <<>>)
    \o (IF Truthy(r.meta) THEN <<Header("meta:"), Dump(r.meta)>> ELSE <<>>)
    \o [i \in 1..Len(r.content) |-> Dump(r.content[i])]

\* the formatter applied to one result
FormatResult ==
    /\ pc = "format"
    /\ rendered' = format_tool_result(result)
    /\ pc' = "formatted"
    /\ ev' = [op |-> "format", res |-> "ok"]
    /\ UNCHANGED <<mode, argtext, verb, tail, transport, opens, closes,
                   initialized, alive, handler, exc, exitCode, out, nread,
                   sigint, entry, args, inflight, issued, serverTools, listing,
                   sent, result>>

InitFmt ==
    /\ mode = "call-tool"
    /\ argtext = NoText
    /\ pc = "format"
    /\ verb = NoText
    /\ tail = NoText
    /\ transport = "none"
    /\ opens = 0
    /\ closes = 0
    /\ initialized = FALSE
    /\ alive = TRUE
    /\ handler = "none"
    /\ exc = "none"
    /\ exitCode = -1
    /\ out = <<>>
    /\ nread = 0
    /\ sigint = "none"
    /\ entry = NoText
    /\ args = "none"
    /\ inflight = 0
    /\ issued = NoneIssued
    /\ serverTools = <<>>
    /\ listing = <<>>
    /\ sent = <<>>
    /\ result \in ToolResults
    /\ rendered = <<>>
    /\ ev = [op |-> "none", res |-> "none"]

NextFmt == FormatResult

SpecFmt == InitFmt /\ [][NextFmt]_vars

(***************************************************************************)
(* Properties                                                              *)
(***************************************************************************)
LastTag == IF out = <<>> THEN "" ELSE out[Len(out)].tag

\* with_mcp_session has been left (normally or by an exception)
SessionLeft == opens > 0 /\ pc \in {"mainexit", "done"}

\* the loop is waiting for input or a command is suspended on its operation
InLoop ==
    mode = "interactive" /\ pc \in {"waiting", "listing", "calling", "chatting", "health"}

\* the network failures of a command: a timeout, a dropped connection, an
\* error answer, an HTTP error
NetworkFailures == {"timeout", "drop", "error", "httperror"}

\* C1: whenever a transport was opened, it is torn down exactly once on every
\* way out of with_mcp_session (return, failure, interrupt while waiting for
\* input): never closed twice, never closed while not opened, never
\* left open once with_mcp_session has been left.
C1_TeardownExactlyOnce ==
    /\ closes <= 1
    /\ closes <= opens
    /\ transport = "open" => closes = 0
    /\ SessionLeft => closes = 1 /\ transport = "closed"

\* C1 witness: the loop was interrupted while waiting for its first input
\* line, and the transport has been torn down once
C1_Witness ==
    /\ mode = "interactive"
    /\ pc = "mainexit"
    /\ sigint = "task"
    /\ nread = 0
    /\ Printed("Connected")
    /\ closes = 1

\* C2: in the interactive loop a failed network operation of call, chat, plan,
\* status or tools prints a diagnostic and leaves the loop waiting for input
\* on the same session.
C2_NetworkFailureIsolated ==
    (mode = "interactive"
        /\ ev.op \in {"listTools", "callTool", "chat", "health"}
        /\ ev.res \in NetworkFailures)
    => /\ pc = "waiting"
       /\ LastTag \in {"ListToolsFailed", "ToolCallFailed", "OllamaFailed", "HealthFailed"}
       /\ transport = "open"
       /\ handler = "running"

\* C3: a failed tool invocation of the interactive call command prints
\* "Tool call failed: ..." and leaves the loop waiting for input on the same
\* session, which was neither torn down nor opened again.
C3_CallFailureContinues ==
    (mode = "interactive" /\ ev.op = "callTool" /\ ev.res \in SessionFailures)
    => /\ pc = "waiting"
       /\ LastTag = "ToolCallFailed"
       /\ handler = "running"
       /\ transport = "open"
       /\ opens = 1
       /\ closes = 0

\* C3 witness: after a failed tool call a second call was dispatched on the
\* same session and its result was printed
C3_Witness ==
    /\ mode = "interactive"
    /\ pc = "waiting"
    /\ Len(out) >= 2
    /\ out[Len(out) - 1].tag = "ToolCallFailed"
    /\ out[Len(out)].tag = "result"
    /\ opens = 1
    /\ closes = 0

\* C4: in the interactive loop a call whose argument text is not JSON prints a
\* hint, performs no tool call and leaves the loop waiting for input.
C4_BadJsonKeepsLoop ==
    (mode = "interactive" /\ ev.op = "parse")
    => /\ pc = "waiting"
       /\ handler = "running"
       /\ exc = "none"

\* C5 as claimed: once the connection has dropped under a session operation
\* of a command, the loop has ended.
C5_DropAlwaysEndsLoop ==
    (mode = "interactive" /\ initialized /\ ~alive) => handler = "raised"

\* C5 as amended: a drop during the listTools of tools or plan ends the loop
\* by an escaping failure, no further line is read, the transport is torn
\* down and the process exits 1 without a second transport; a drop during
\* the callTool of call is caught and the loop waits for input again.
C5_DropEndsLoopOnlyForListTools ==
    /\ (mode = "interactive" /\ ev.op = "listTools" /\ ev.res = "drop")
       => /\ handler = "raised"
          /\ exc = "Error"
          /\ pc = "teardown"
    /\ (mode = "interactive" /\ ev.op = "callTool" /\ ev.res = "drop")
       => /\ pc = "waiting"
          /\ LastTag = "ToolCallFailed"
    /\ handler = "raised" => /\ pc \in {"teardown", "mainexit", "done"}
                             /\ opens = 1
                             /\ (pc # "teardown" => closes = 1)
                             /\ (pc = "done" => exitCode = 1)

\* C5 witness: the connection dropped during the listTools of a plan command
C5_Witness ==
    /\ mode = "interactive"
    /\ verb = V_plan
    /\ ev = [op |-> "listTools", res |-> "drop"]
    /\ pc = "teardown"

\* C6: the handler runs, the loop waits or dispatches, and a session operation
\* is issued only on an open transport whose handshake has completed.
C6_InitializedBeforeUse ==
    (handler = "running" \/ InLoop \/ ev.op \in {"listTools", "callTool"}
        \/ (mode # "chat" /\ pc \in {"listing", "calling"}))
    => /\ initialized
       /\ opens = 1
       /\ (handler = "running" => transport = "open")

\* C6 witness: a tool call of the loop is outstanding on the initialized session
C6_Witness ==
    /\ mode = "interactive"
    /\ pc = "calling"
    /\ initialized
    /\ transport = "open"

\* the handshake on the opened transport failed or timed out
HandshakeFailed ==
    opens = 1 /\ ~initialized /\ pc # "handshake" /\ sigint = "none"

\* C7: a failed handshake is fatal: the handler is never invoked, nothing is
\* read or dispatched, no session operation is issued, the transport is torn
\* down once, no second transport is opened and the process exits 1.
C7_HandshakeFailureFatal ==
    HandshakeFailed
    => /\ handler = "none"
       /\ exc = "Error"
       /\ pc \in {"teardown", "mainexit", "done"}
       /\ ev.op \in {"initialize", "teardown", "exit"}
       /\ nread = 0
       /\ ~Printed("Connected")
       /\ (pc # "teardown" => closes = 1 /\ transport = "closed")
       /\ (pc = "done" => exitCode = 1)

\* C7 witness: the process has exited after a handshake of the loop timed out
C7_Witness ==
    /\ HandshakeFailed
    /\ mode = "interactive"
    /\ pc = "done"
    /\ closes = 1

\* C8: end-of-input, an interrupt and quit/exit while waiting for input all end
\* the loop by a normal return of the handler, after which the transport is
\* torn down.
C8_TerminationIsNormalReturn ==
    (ev.op = "input" /\ ev.res \in {"eof", "quit", "interrupt-input", "interrupt-task"})
    => /\ handler = "returned"
       /\ exc = "none"
       /\ pc = "teardown"

C10_BadBodyIsolated ==
    (mode = "interactive" /\ ev.op \in {"chat", "health"} /\ ev.res = "badbody")
    => /\ pc = "waiting"
       /\ handler = "running"

\* C11: at most one session: a transport is opened at most once in the life
\* of the process, never while one is open, and never again after teardown.
C11_AtMostOneSession ==
    /\ opens <= 1
    /\ transport = "open" => opens = 1 /\ closes = 0
    /\ transport = "closed" => /\ opens = 1
                               /\ closes = 1
                               /\ pc \notin {"connect", "handshake"}

\* C11 witness: the process has exited after a dropped session ended the loop,
\* with that one session and no other
C11_Witness ==
    /\ mode = "interactive"
    /\ pc = "done"
    /\ ~alive
    /\ handler = "raised"
    /\ opens = 1
    /\ closes = 1

\* C12: commands are serialized: at most one network operation is
\* outstanding, one is outstanding exactly while the task is suspended on it,
\* and none is when the loop waits for (and reads) the next line.
C12_Serialized ==
    /\ inflight <= 1
    /\ pc = "waiting" => inflight = 0
    /\ inflight = 1 => pc \in NetPcs
    /\ pc \in NetPcs => inflight = 1

\* C12 witness: the second command of a run is suspended on its chat call
C12_Witness ==
    /\ mode = "interactive"
    /\ nread = 2
    /\ pc = "chatting"
    /\ verb = V_plan
    /\ inflight = 1

\* the operations a command of the loop may issue
AllowedOps(v) ==
    CASE v = V_call -> {"callTool"}
      [] v = V_tools -> {"listTools"}
      [] v = V_chat -> {"chat"}
      [] v = V_plan -> {"listTools", "chat"}
      [] v = V_status -> {"health"}
      [] OTHER -> {}

\* C13: no retries: one command issues each network operation at most once,
\* and only the operations of its verb.
C13_NoRetries ==
    /\ \A op \in Ops : issued[op] <= 1
    /\ mode = "interactive" => \A op \in Ops \ AllowedOps(verb) : issued[op] = 0

\* C13 witness: a chat call failed and the loop waits again, the call having
\* been issued once
C13_Witness ==
    /\ mode = "interactive"
    /\ ev = [op |-> "chat", res |-> "timeout"]
    /\ pc = "waiting"
    /\ issued["chat"] = 1

\* a line has just been read and dispatched up to its first suspension
JustRead ==
    /\ mode = "interactive"
    /\ ev.op \in {"input", "parse"}
    /\ ev.res \notin {"eof", "interrupt-input", "interrupt-task"}

UsageTag(command) ==
    CASE command = V_call -> "Usage:call"
      [] command = V_chat -> "Usage:chat"
      [] OTHER -> "Usage:plan"

\* C14: call, chat and plan given no tail print their usage line, issue no
\* network operation and leave the loop waiting for input.
C14_NoTailNoNetwork ==
    (JustRead /\ Lower(Strip(entry)) \in {V_call, V_chat, V_plan})
    => /\ pc = "waiting"
       /\ LastTag = UsageTag(Lower(Strip(entry)))
       /\ inflight = 0
       /\ issued = NoneIssued
       /\ handler = "running"

\* C14 witness: a bare plan was read
C14_Witness ==
    /\ JustRead
    /\ entry = V_plan
    /\ LastTag = "Usage:plan"

DispatchVerbs ==
    {V_quit, V_exit, V_help, V_tools, V_call, V_chat, V_plan, V_status}

NoUpper(s) == \A i \in 1..Len(s) : \A j \in 1..Len(UpperChars) : s[i] # UpperChars[j]

\* C15: reading a line whose lower-cased verb is not in the dispatch table
\* prints exactly the unknown-command line with that verb, issues no
\* operation and keeps waiting; reading a line that is empty after trimming
\* prints nothing, issues no operation and keeps waiting.
C15_UnknownAndEmpty ==
    [][(pc = "waiting" /\ nread' = nread + 1)
        => LET command == Strip(entry')
               v == Lower(PartHead(command))
           IN  /\ command = NoText
                  => /\ out' = out
                     /\ pc' = "waiting"
                     /\ inflight' = 0
                     /\ issued' = NoneIssued
                     /\ sent' = sent
               /\ (command # NoText /\ v \notin DispatchVerbs)
                  => /\ out' = Append(out, [tag |-> "Unknown", arg |-> v])
                     /\ NoUpper(v)
                     /\ pc' = "waiting"
                     /\ inflight' = 0
                     /\ issued' = NoneIssued
                     /\ sent' = sent]_vars

\* C15 witness: a line with the unknown verb Ex was read and answered
C15_Witness ==
    /\ JustRead
    /\ entry = <<"E", "x">>
    /\ pc = "waiting"
    /\ out[Len(out)] = [tag |-> "Unknown", arg |-> <<"e", "x">>]

\* C16: tools and plan each fetch the tool list themselves, before any other
\* operation, and the prompt of plan carries the tools of that fetch: what
\* the server advertises at the time, not an earlier listing.
C16_NoToolCache ==
    /\ (mode = "interactive" /\ pc = "listing")
       => /\ issued = [NoneIssued EXCEPT !["listTools"] = 1]
          /\ inflight = 1
    /\ (mode = "interactive" /\ ev = [op |-> "listTools", res |-> "ok"])
       => /\ listing = serverTools
          /\ issued["listTools"] = 1
          /\ verb = V_plan
             => /\ sent # <<>>
                /\ sent[Len(sent)].tools = PlanToolSection(serverTools)
    /\ (mode = "interactive" /\ pc = "chatting" /\ verb = V_plan)
       => issued["listTools"] = 1

\* C16 witness: two plan commands posted prompts with different tool sections
C16_Witness ==
    /\ mode = "interactive"
    /\ ev = [op |-> "listTools", res |-> "ok"]
    /\ Len(sent) = 2
    /\ sent[1].system = SystemPrompt
    /\ sent[2].system = SystemPrompt
    /\ sent[1].tools # sent[2].tools

\* the line of one tool in the prompt of plan: "- name: description", the
\* description empty when the tool has none
ExpectedPlanLine(t) ==
    <<"-", " ">> \o t.name \o <<":", " ">>
        \o (IF t.described THEN t.description ELSE NoText)

\* C17: the prompt of plan carries the fixed system instruction, the goal
\* text, and as tool section the fixed fallback line when no tool is
\* advertised, else one "- name: description" line per tool in listing order.
C17_PlanPrompt ==
    (mode = "interactive" /\ ev = [op |-> "listTools", res |-> "ok"] /\ verb = V_plan)
    => LET p == sent[Len(sent)]
       IN  /\ p.system = SystemPrompt
           /\ p.text = tail
           /\ tail # NoText
           /\ p.tools # <<>>
           /\ listing = <<>> => p.tools = <<FallbackLine>>
           /\ listing # <<>>
              => /\ Len(p.tools) = Len(listing)
                 /\ \A i \in 1..Len(listing) : p.tools[i] = ExpectedPlanLine(listing[i])

\* C17 witness: plan ran while no tool was advertised
C17_Witness ==
    /\ mode = "interactive"
    /\ ev = [op |-> "listTools", res |-> "ok"]
    /\ verb = V_plan
    /\ listing = <<>>
    /\ sent[Len(sent)].tools = <<FallbackLine>>

\* the text expected of the formatter, a section being shown when has(payload)
ExpectedFormat(r, has(_)) ==
    <<[kind |-> "status", val |-> IF r.isError THEN "error" ELSE "ok"]>>
    \o (IF has(r.structuredContent)
        THEN <<[kind |-> "header", val |-> "structured:"],
               [kind |-> "json", val |-> r.structuredContent]>>
        ELSE <<>>)
    \o (IF has(r.meta)
        THEN <<[kind |-> "header", val |-> "meta:"],
               [kind |-> "json", val |-> r.meta]>>
        ELSE <<>>)
    \o [i \in 1..Len(r.content) |-> [kind |-> "json", val |-> r.content[i]]]

IsPresent(payload) == payload # "None"
IsNonEmpty(payload) == payload # "None" /\ payload # "{}"

\* C18 as claimed: the formatted text is the status line, a structured:
\* section iff a structured payload is present, a meta: section iff metadata
\* is present, then one entry per content block in order.
C18_SectionsIffPresent ==
    pc = "formatted" => rendered = ExpectedFormat(result, IsPresent)

\* C18 as amended: the same, a section being shown iff its payload is present
\* and not an empty mapping.
C18_SectionsIffNonEmpty ==
    pc = "formatted" => rendered = ExpectedFormat(result, IsNonEmpty)

\* C18 witness: a result with both payloads and two different blocks was
\* formatted
C18_Witness ==
    /\ pc = "formatted"
    /\ result.structuredContent = "P"
    /\ result.meta = "P"
    /\ result.content = <<"B2", "B1">>
    /\ Len(rendered) = 7

\* C19: in one-shot call-tool mode malformed inline JSON ends the process with
\* exit code 1 and the diagnostic before any network activity (no transport,
\* no handshake, no callTool); an absent or empty argument is the empty
\* mapping and the command goes on to connect.
C19_OneShotBadJsonAborts ==
    /\ (mode = "call-tool" /\ pc \notin {"main", "format", "formatted"}
           /\ argtext # NoText /\ ~JsonDecodes(argtext))
       => /\ opens = 0
          /\ transport = "none"
          /\ ~initialized
          /\ inflight = 0
          /\ issued = NoneIssued
          /\ args = "none"
          /\ pc \in {"mainexit", "done"}
          /\ pc = "done" => exitCode = 1 /\ LastTag = "stderr:UnableToParseJSON"
    /\ (mode = "call-tool" /\ pc \notin {"main", "format", "formatted"}
           /\ argtext = NoText)
       => /\ args = "empty"
          /\ exc # "SystemExit:parse"
          /\ ev = [op |-> "start", res |-> "ok"] => pc = "connect"

\* C19 witness: the one-shot call with malformed arguments has exited
C19_Witness ==
    /\ mode = "call-tool"
    /\ argtext = <<"{">>
    /\ pc = "done"
    /\ exitCode = 1
    /\ opens = 0

\* C20: once the transport of the session is closed, no listTools or callTool
\* is issued or outstanding, and no command is suspended on any operation.
C20_NoUseAfterTeardown ==
    transport = "closed"
    => /\ inflight = 0
       /\ pc \notin NetPcs
       /\ ev.op \notin {"listTools", "callTool"}

\* C20 witness: the session was closed after an interrupt during the
\* listTools of a tools command
C20_Witness ==
    /\ mode = "interactive"
    /\ transport = "closed"
    /\ verb = V_tools
    /\ handler = "raised"
    /\ sigint = "task"
    /\ issued["listTools"] = 1

====
